---- MODULE Spec2Model ----
(***************************************************************************)
(* fibernewrelic: a fiber middleware that wraps every request in a New     *)
(* Relic transaction.  The model covers construction (New), the            *)
(* per-request closure returned by New, FromContext, and the pure helpers  *)
(* transport, createTransactionName and DefaultErrorStatusCodeHandler.     *)
(* The New Relic application and its transactions are modelled by the      *)
(* calls the middleware makes on them; the downstream handler chain        *)
(* (c.Next) is the environment.                                            *)
(***************************************************************************)
EXTENDS Integers, Sequences, FiniteSets, TLC

\* ---------------------------------------------------------------- bounds
NumReqs == 2          \* requests handled concurrently by one middleware
MaxSchemeLen == 5     \* longest generated URL scheme, on top of FixedSchemes

Reqs == 1 .. NumReqs

\* ------------------------------------------------------------ value sets
NoApp == "nil"                    \* a nil *newrelic.Application
Injected == "injected"            \* the application passed in cfg.Application
Built == "built"                  \* the application newrelic.NewApplication returns
NoTxn == 0                        \* a nil *newrelic.Transaction
\* A *newrelic.Transaction is a fresh pointer; fresh pointers are modelled up
\* to renaming, the transaction a StartTransaction call allocates being named
\* after the request whose goroutine made the call.

\* error values: the nil error, a *fiber.Error carrying a code, an error of
\* another type, and a nil *fiber.Error stored in a non-nil interface.
NilErr == [kind |-> "nil", code |-> 0]
FiberErr(code) == [kind |-> "fiber", code |-> code]
OtherErr == [kind |-> "other", code |-> 0]
NilFiberErr == [kind |-> "nilfiber", code |-> 0]

\* the errors the next handler returns to the closure
HandlerErrors == {FiberErr(404), OtherErr}

\* the outcome of a call of an ErrorStatusCodeHandler: the status code it
\* returns or a panic, and the response's status code as the call leaves it
Returns(code, status) == [panics |-> FALSE, code |-> code, status |-> status]
Panics(status) == [panics |-> TRUE, code |-> 0, status |-> status]

\* what a user-supplied ErrorStatusCodeHandler may do
CustomOutcomes(respStatus) == {Returns(418, respStatus), Panics(respStatus)}

\* ------------------------------------------------------- pure functions
HasPrefix(s, prefix) ==
  /\ Len(s) >= Len(prefix)
  /\ SubSeq(s, 1, Len(prefix)) = prefix

TransportHTTP == "HTTP"
TransportHTTPS == "HTTPS"
TransportUnknown == "Unknown"

\* mutant: the http test made before the https test
transport_HttpFirst(schema) ==
  IF HasPrefix(schema, "http") THEN TransportHTTP
  ELSE IF HasPrefix(schema, "https") THEN TransportHTTPS
  ELSE TransportUnknown

transport(schema) ==
  IF HasPrefix(schema, "https") THEN TransportHTTPS
  ELSE IF HasPrefix(schema, "http") THEN TransportHTTP
  ELSE TransportUnknown

createTransactionName(method, path) == method \o " " \o path

\* mutant: 500 for an error that is no *fiber.Error, as fiber's own default
\* error handler answers
DefaultErrorStatusCodeHandler_ServerError(respStatus, err) ==
  IF err.kind = "fiber" THEN Returns(err.code, respStatus)
  ELSE IF err.kind = "nilfiber" THEN Panics(respStatus)
  ELSE Returns(500, respStatus)

\* err.(*fiber.Error) succeeds for the dynamic type *fiber.Error only; reading
\* Code through a nil *fiber.Error panics
DefaultErrorStatusCodeHandler(respStatus, err) ==
  IF err.kind = "fiber" THEN Returns(err.code, respStatus)
  ELSE IF err.kind = "nilfiber" THEN Panics(respStatus)
  ELSE Returns(respStatus, respStatus)

\* ------------------------------------------------------------- requests
\* the status code the route's handler chain leaves in the response: some
\* routes set one, the others leave fasthttp's 200
HandlerStatus(r) == IF r % 2 = 1 THEN 201 ELSE 200

\* the fields of a request the middleware reads; the requests in flight are
\* distinct requests
Request(r) ==
  IF r % 2 = 1
  THEN [method |-> "GET", path |-> "/users/" \o ToString(r), scheme |-> "https",
        host |-> "example.com", query |-> "a=1"]
  ELSE [method |-> "POST", path |-> "/items/" \o ToString(r), scheme |-> "http",
        host |-> "localhost", query |-> ""]

\* -------------------------------------------------------- configuration
Default == "DefaultErrorStatusCodeHandler"
Custom == "custom"
NoFunc == "nil"

ConfigDefault ==
  [Application |-> NoApp, License |-> "", AppName |-> "fiber-api",
   Enabled |-> FALSE, ErrorStatusCodeHandler |-> Default]

Configs ==
  [Application : {NoApp, Injected}, License : {"", "license"},
   AppName : {"", "svc"}, Enabled : {FALSE, TRUE},
   ErrorStatusCodeHandler : {NoFunc, Custom}]

VARIABLES
  cfg,          \* New's parameter cfg, as New updates it and the closure captures it
  app,          \* New's local app
  built,        \* number of calls of newrelic.NewApplication that returned
  handler,      \* outcome of New: "none" (not called), "returned", "panicked"
  started,      \* number of StartTransaction calls on app
  txns,         \* the transactions, by name; log = << >> for one not allocated
  pc,           \* per request: position in the middleware closure
  req,          \* per request: the request's fields
  resp,         \* per request: c.Context().Response.StatusCode()
  userCtx,      \* per request: the transaction in c.UserContext(), or NoTxn
  txn,          \* per request: the closure's local txn
  handlerErr,   \* per request: the closure's local handlerErr
  statusCode,   \* per request: the closure's local statusCode
  ret,          \* per request: what the closure returned to its caller
  seen,         \* per request: << >>, or the result of the last FromContext(c)
  mapped,       \* per request: the ErrorStatusCodeHandler calls, [err, out]
  trace,        \* per request: the steps its goroutine has taken, in order
  call,         \* a call of one of the package's functions: its arguments
  result        \* and its result

vars ==
  <<cfg, app, built, handler, started, txns, pc, req, resp, userCtx, txn,
    handlerErr, statusCode, ret, seen, mapped, trace, call, result>>

newVars == <<cfg, app, built, handler>>
reqVars ==
  <<started, txns, pc, req, resp, userCtx, txn, handlerErr, statusCode, ret, seen,
    mapped, trace>>

NoTransaction ==
  [app |-> NoApp, name |-> "", log |-> << >>, web |-> << >>, errors |-> << >>,
   codes |-> << >>, ends |-> 0]

callVars == <<call, result>>

NoCall == [fn |-> "none", schema |-> "", status |-> 0, err |-> NilErr]
NoResult == [done |-> FALSE, transport |-> "", out |-> Returns(0, 0)]

\* before New(c) is called
Before(c) ==
  /\ result = NoResult
  /\ cfg = c
  /\ app = NoApp
  /\ built = 0
  /\ handler = "none"
  /\ started = 0
  /\ txns = [t \in Reqs |-> NoTransaction]
  /\ pc = [r \in Reqs |-> "idle"]
  /\ req = [r \in Reqs |-> Request(r)]
  /\ resp = [r \in Reqs |-> 200]
  /\ userCtx = [r \in Reqs |-> NoTxn]
  /\ txn = [r \in Reqs |-> NoTxn]
  /\ handlerErr = [r \in Reqs |-> NilErr]
  /\ statusCode = [r \in Reqs |-> 0]
  /\ ret = [r \in Reqs |-> << >>]
  /\ seen = [r \in Reqs |-> << >>]
  /\ mapped = [r \in Reqs |-> << >>]
  /\ trace = [r \in Reqs |-> << >>]

\* a service that passes its configuration to New and serves requests
ServiceConfigs ==
  {c \in Configs : c.License = "license" /\ c.AppName = "" /\ c.Enabled}

Init ==
  /\ \E c \in ServiceConfigs : Before(c)
  /\ call = NoCall

\* any configuration passed to New
InitNew ==
  /\ \E c \in Configs : Before(c)
  /\ call = NoCall

\* ----------------------------------------------------------------- New
\* cfg as New leaves it: the nil ErrorStatusCodeHandler replaced, and, when no
\* application is injected, the empty AppName replaced.
Resolved(c) ==
  LET c1 == IF c.ErrorStatusCodeHandler = NoFunc
            THEN [c EXCEPT !.ErrorStatusCodeHandler = ConfigDefault.ErrorStatusCodeHandler]
            ELSE c
  IN IF c1.Application = NoApp /\ c1.AppName = ""
     THEN [c1 EXCEPT !.AppName = ConfigDefault.AppName]
     ELSE c1

\* mutant: License checked before cfg.Application is looked at
New_LicenseFirst(created) ==
  /\ handler = "none"
  /\ cfg' = Resolved(cfg)
  /\ IF cfg.License = ""
     THEN /\ handler' = "panicked"
          /\ UNCHANGED <<app, built>>
     ELSE IF cfg.Application # NoApp
     THEN /\ app' = cfg.Application
          /\ built' = built
          /\ handler' = "returned"
     ELSE IF created
     THEN /\ app' = Built
          /\ built' = built + 1
          /\ handler' = "returned"
     ELSE /\ handler' = "panicked"
          /\ UNCHANGED <<app, built>>
  /\ UNCHANGED <<reqVars, callVars>>

\* New(cfg); created tells whether newrelic.NewApplication returns without error
New(created) ==
  /\ handler = "none"
  /\ cfg' = Resolved(cfg)
  /\ IF cfg.Application # NoApp
     THEN /\ app' = cfg.Application
          /\ built' = built
          /\ handler' = "returned"
     ELSE IF cfg.License = ""
     THEN /\ handler' = "panicked"
          /\ UNCHANGED <<app, built>>
     ELSE IF created
     THEN /\ app' = Built
          /\ built' = built + 1
          /\ handler' = "returned"
     ELSE /\ handler' = "panicked"
          /\ UNCHANGED <<app, built>>
  /\ UNCHANGED <<reqVars, callVars>>

\* ------------------------------------------------ the middleware closure
Call(op, r) == [op |-> op, by |-> r]

Did(r, op) == [trace EXCEPT ![r] = Append(@, op)]

NewTxn(a, name, r) ==
  [NoTransaction EXCEPT !.app = a, !.name = name,
                        !.log = <<Call("StartTransaction", r)>>]

\* mutant: txn.End() called at once instead of deferred
StartTransaction_EndNotDeferred(r) ==
  /\ handler = "returned"
  /\ pc[r] = "idle"
  /\ started' = started + 1
  /\ txns' = [txns EXCEPT ![r] =
                [NewTxn(app, createTransactionName(req[r].method, req[r].path), r)
                   EXCEPT !.ends = 1, !.log = Append(@, Call("End", r))]]
  /\ txn' = [txn EXCEPT ![r] = r]
  /\ pc' = [pc EXCEPT ![r] = "started"]
  /\ trace' = [trace EXCEPT ![r] = @ \o <<"StartTransaction", "End">>]
  /\ UNCHANGED <<newVars, callVars, req, resp, userCtx, handlerErr, statusCode, ret, seen, mapped>>

\* mutant: txn declared outside the closure, one variable for all requests
StartTransaction_SharedTxn(r) ==
  /\ handler = "returned"
  /\ pc[r] = "idle"
  /\ started' = started + 1
  /\ txns' = [txns EXCEPT ![r] =
                NewTxn(app, createTransactionName(req[r].method, req[r].path), r)]
  /\ txn' = [x \in Reqs |-> IF pc[x] = "idle" /\ x # r THEN txn[x] ELSE r]
  /\ pc' = [pc EXCEPT ![r] = "started"]
  /\ trace' = Did(r, "StartTransaction")
  /\ UNCHANGED <<newVars, callVars, req, resp, userCtx, handlerErr, statusCode, ret, seen, mapped>>

\* txn := app.StartTransaction(createTransactionName(c)); defer txn.End()
StartTransaction(r) ==
  /\ handler = "returned"
  /\ pc[r] = "idle"
  /\ started' = started + 1
  /\ txns' = [txns EXCEPT ![r] =
                NewTxn(app, createTransactionName(req[r].method, req[r].path), r)]
  /\ txn' = [txn EXCEPT ![r] = r]
  /\ pc' = [pc EXCEPT ![r] = "started"]
  /\ trace' = Did(r, "StartTransaction")
  /\ UNCHANGED <<newVars, callVars, req, resp, userCtx, handlerErr, statusCode, ret, seen, mapped>>

WebRequest(q) ==
  [Host |-> q.host, Method |-> q.method, Transport |-> transport(q.scheme),
   URL |-> [Host |-> q.host, Scheme |-> q.scheme, Path |-> q.path,
            RawQuery |-> q.query]]

\* txn.SetWebRequest(newrelic.WebRequest{...})
SetWebRequest(r) ==
  /\ pc[r] = "started"
  /\ txns' = [txns EXCEPT ![txn[r]] =
                [@ EXCEPT !.web = Append(@, WebRequest(req[r])),
                          !.log = Append(@, Call("SetWebRequest", r))]]
  /\ pc' = [pc EXCEPT ![r] = "webreq"]
  /\ trace' = Did(r, "SetWebRequest")
  /\ UNCHANGED <<newVars, callVars, started, req, resp, userCtx, txn, handlerErr, statusCode,
                 ret, seen, mapped>>

\* c.SetUserContext(newrelic.NewContext(c.UserContext(), txn))
SetUserContext(r) ==
  /\ pc[r] = "webreq"
  /\ userCtx' = [userCtx EXCEPT ![r] = txn[r]]
  /\ pc' = [pc EXCEPT ![r] = "next"]
  /\ trace' = Did(r, "SetUserContext")
  /\ UNCHANGED <<newVars, callVars, started, txns, req, resp, txn, handlerErr, statusCode,
                 ret, seen, mapped>>

\* mutant: a transaction started when the context holds none
FromContext_StartsOnMiss(r) ==
  IF userCtx[r] = NoTxn
  THEN /\ started' = started + 1
       /\ txns' = [txns EXCEPT ![r] = NewTxn(app, "", r)]
       /\ seen' = [seen EXCEPT ![r] = <<r>>]
       /\ UNCHANGED <<userCtx, txn>>
  ELSE /\ seen' = [seen EXCEPT ![r] = <<userCtx[r]>>]
       /\ UNCHANGED <<started, txns, userCtx, txn>>

\* FromContext(c): newrelic.FromContext(c.UserContext())
FromContext(r) ==
  /\ seen' = [seen EXCEPT ![r] = <<userCtx[r]>>]
  /\ UNCHANGED <<started, txns, userCtx, txn>>

\* a handler that runs before the middleware, or on a route without it, calls
\* FromContext(c)
Upstream(r) ==
  /\ pc[r] = "idle"
  /\ FromContext(r)
  /\ UNCHANGED <<newVars, callVars, pc, req, resp, handlerErr, statusCode, ret, mapped, trace>>

\* handlerErr := c.Next(): the next handler is entered; it calls FromContext(c)
\* and leaves its status in the response
HandlerRun(r) ==
  /\ pc[r] = "next"
  /\ FromContext(r)
  /\ resp' = [resp EXCEPT ![r] = HandlerStatus(r)]
  /\ pc' = [pc EXCEPT ![r] = "handler"]
  /\ trace' = Did(r, "Next")
  /\ UNCHANGED <<newVars, callVars, req, handlerErr, statusCode, ret, mapped>>

\* mutant: the test of handlerErr left out, the error branch always taken
HandlerReturn_AlwaysMaps(r, e) ==
  /\ pc[r] = "handler"
  /\ handlerErr' = [handlerErr EXCEPT ![r] = e]
  /\ statusCode' = [statusCode EXCEPT ![r] = resp[r]]
  /\ pc' = [pc EXCEPT ![r] = "map"]
  /\ trace' = Did(r, "NextReturned")
  /\ UNCHANGED <<newVars, callVars, started, txns, req, resp, userCtx, txn, ret, seen, mapped>>

\* c.Next() returns e (NilErr or an error): handlerErr := e;
\* statusCode := c.Context().Response.StatusCode(); if handlerErr != nil
HandlerReturn(r, e) ==
  /\ pc[r] = "handler"
  /\ handlerErr' = [handlerErr EXCEPT ![r] = e]
  /\ statusCode' = [statusCode EXCEPT ![r] = resp[r]]
  /\ pc' = [pc EXCEPT ![r] = IF e # NilErr THEN "map" ELSE "write"]
  /\ trace' = Did(r, "NextReturned")
  /\ UNCHANGED <<newVars, callVars, started, txns, req, resp, userCtx, txn, ret, seen, mapped>>

\* c.Next() panics
HandlerPanic(r) ==
  /\ pc[r] = "handler"
  /\ pc' = [pc EXCEPT ![r] = "panicking"]
  /\ trace' = Did(r, "NextPanicked")
  /\ UNCHANGED <<newVars, callVars, started, txns, req, resp, userCtx, txn, handlerErr,
                 statusCode, ret, seen, mapped>>

\* what cfg.ErrorStatusCodeHandler(c, handlerErr) may do
StatusOutcomes(r) ==
  IF cfg.ErrorStatusCodeHandler = Default
  THEN {DefaultErrorStatusCodeHandler(resp[r], handlerErr[r])}
  ELSE CustomOutcomes(resp[r])

\* statusCode = cfg.ErrorStatusCodeHandler(c, handlerErr)
ErrorStatus(r, out) ==
  /\ pc[r] = "map"
  /\ mapped' = [mapped EXCEPT ![r] = Append(@, [err |-> handlerErr[r], out |-> out])]
  /\ statusCode' = [statusCode EXCEPT ![r] = IF out.panics THEN @ ELSE out.code]
  /\ resp' = [resp EXCEPT ![r] = out.status]
  /\ pc' = [pc EXCEPT ![r] = IF out.panics THEN "panicking" ELSE "notice"]
  /\ trace' = Did(r, "ErrorStatusCodeHandler")
  /\ UNCHANGED <<newVars, callVars, started, txns, req, userCtx, txn, handlerErr, ret, seen>>

\* mutant: WriteHeader in the else branch, skipped after an error
NoticeError_SkipsWriteHeader(r) ==
  /\ pc[r] = "notice"
  /\ txns' = [txns EXCEPT ![txn[r]] =
                [@ EXCEPT !.errors = Append(@, handlerErr[r]),
                          !.log = Append(@, Call("NoticeError", r))]]
  /\ pc' = [pc EXCEPT ![r] = "return"]
  /\ trace' = Did(r, "NoticeError")
  /\ UNCHANGED <<newVars, callVars, started, req, resp, userCtx, txn, handlerErr, statusCode,
                 ret, seen, mapped>>

\* txn.NoticeError(handlerErr)
NoticeError(r) ==
  /\ pc[r] = "notice"
  /\ txns' = [txns EXCEPT ![txn[r]] =
                [@ EXCEPT !.errors = Append(@, handlerErr[r]),
                          !.log = Append(@, Call("NoticeError", r))]]
  /\ pc' = [pc EXCEPT ![r] = "write"]
  /\ trace' = Did(r, "NoticeError")
  /\ UNCHANGED <<newVars, callVars, started, req, resp, userCtx, txn, handlerErr, statusCode,
                 ret, seen, mapped>>

\* mutant: the response's status code written, whatever statusCode holds
WriteHeader_ResponseStatus(r) ==
  /\ pc[r] = "write"
  /\ txns' = [txns EXCEPT ![txn[r]] =
                [@ EXCEPT !.codes = Append(@, resp[r]),
                          !.log = Append(@, Call("WriteHeader", r))]]
  /\ pc' = [pc EXCEPT ![r] = "return"]
  /\ trace' = Did(r, "WriteHeader")
  /\ UNCHANGED <<newVars, callVars, started, req, resp, userCtx, txn, handlerErr, statusCode,
                 ret, seen, mapped>>

\* txn.SetWebResponse(nil).WriteHeader(statusCode)
WriteHeader(r) ==
  /\ pc[r] = "write"
  /\ txns' = [txns EXCEPT ![txn[r]] =
                [@ EXCEPT !.codes = Append(@, statusCode[r]),
                          !.log = Append(@, Call("WriteHeader", r))]]
  /\ pc' = [pc EXCEPT ![r] = "return"]
  /\ trace' = Did(r, "WriteHeader")
  /\ UNCHANGED <<newVars, callVars, started, req, resp, userCtx, txn, handlerErr, statusCode,
                 ret, seen, mapped>>

\* the deferred txn.End()
End(r) ==
  /\ txns' = [txns EXCEPT ![txn[r]] =
                [@ EXCEPT !.ends = @ + 1,
                          !.log = Append(@, Call("End", r))]]
  /\ trace' = Did(r, "End")

\* return handlerErr, and the deferred call runs before the caller resumes
Return(r) ==
  /\ pc[r] = "return"
  /\ ret' = [ret EXCEPT ![r] = <<handlerErr[r]>>]
  /\ End(r)
  /\ pc' = [pc EXCEPT ![r] = "done"]
  /\ UNCHANGED <<newVars, callVars, started, req, resp, userCtx, txn, handlerErr, statusCode, seen, mapped>>

\* mutant: txn.End() as the closure's last statement, not deferred
Unwind_NoEnd(r) ==
  /\ pc[r] = "panicking"
  /\ pc' = [pc EXCEPT ![r] = "panicked"]
  /\ UNCHANGED <<newVars, callVars, started, txns, trace, req, resp, userCtx, txn, handlerErr,
                 statusCode, ret, seen, mapped>>

\* a panic unwinds the closure: the deferred call runs, the panic goes on to
\* the caller and nothing is returned
Unwind(r) ==
  /\ pc[r] = "panicking"
  /\ End(r)
  /\ pc' = [pc EXCEPT ![r] = "panicked"]
  /\ UNCHANGED <<newVars, callVars, started, req, resp, userCtx, txn, handlerErr, statusCode,
                 ret, seen, mapped>>

Middleware(r) ==
  \/ StartTransaction(r)
  \/ SetWebRequest(r)
  \/ SetUserContext(r)
  \/ HandlerRun(r)
  \/ \E e \in {NilErr} \cup HandlerErrors : HandlerReturn(r, e)
  \/ HandlerPanic(r)
  \/ \E out \in StatusOutcomes(r) : ErrorStatus(r, out)
  \/ NoticeError(r)
  \/ WriteHeader(r)
  \/ Return(r)
  \/ Unwind(r)

Next ==
  \/ \E created \in BOOLEAN : New(created)
  \/ \E r \in Reqs : Upstream(r)
  \/ \E r \in Reqs : Middleware(r)

Spec == Init /\ [][Next]_vars

\* New with any configuration, and the handler it returns serving a request
NextNew ==
  \/ \E created \in BOOLEAN : New(created)
  \/ Upstream(1)
  \/ Middleware(1)

SpecNew == InitNew /\ [][NextNew]_vars

\* ------------------------------------------- the functions, called alone
RECURSIVE Strings(_)
\* the strings over Alphabet of length at most n
Alphabet == {"h", "t", "p", "s", "H", "f"}
Strings(n) ==
  IF n = 0 THEN {""}
  ELSE LET shorter == Strings(n - 1)
       IN shorter \cup {s \o c : s \in shorter, c \in Alphabet}

FixedSchemes == {"", "http", "https", "ftp", "HTTP", "HTTPS", "https://host", "httpx", "ws"}
Schemes == FixedSchemes \cup Strings(MaxSchemeLen)

Statuses == {200, 201, 404, 500}
Errors == {NilErr, OtherErr, NilFiberErr} \cup {FiberErr(c) : c \in Statuses \cup {400}}

Calls ==
  {[NoCall EXCEPT !.fn = "transport", !.schema = s] : s \in Schemes}
  \cup {[NoCall EXCEPT !.fn = "DefaultErrorStatusCodeHandler", !.status = st, !.err = e] :
          st \in Statuses, e \in Errors}

InitCall ==
  /\ Before(ConfigDefault)
  /\ call \in Calls

CallTransport ==
  /\ call.fn = "transport"
  /\ ~result.done
  /\ result' = [result EXCEPT !.done = TRUE, !.transport = transport(call.schema)]
  /\ UNCHANGED <<newVars, reqVars, call>>

CallDefaultErrorStatusCodeHandler ==
  /\ call.fn = "DefaultErrorStatusCodeHandler"
  /\ ~result.done
  /\ result' = [result EXCEPT !.done = TRUE,
                              !.out = DefaultErrorStatusCodeHandler(call.status, call.err)]
  /\ UNCHANGED <<newVars, reqVars, call>>

NextCall ==
  \/ CallTransport
  \/ CallDefaultErrorStatusCodeHandler

SpecCall == InitCall /\ [][NextCall]_vars

\* ============================================================ properties
Count(seq, x) == Cardinality({i \in 1 .. Len(seq) : seq[i] = x})

\* position of the first x in seq, 0 if there is none
Pos(seq, x) ==
  IF Count(seq, x) = 0 THEN 0
  ELSE CHOOSE i \in 1 .. Len(seq) : seq[i] = x /\ \A j \in 1 .. i - 1 : seq[j] # x

IsPrefix(p, seq) == Len(p) <= Len(seq) /\ SubSeq(seq, 1, Len(p)) = p

Last(seq) == seq[Len(seq)]

Ops(t) == [i \in 1 .. Len(txns[t].log) |-> txns[t].log[i].op]

Entered(r) == pc[r] # "idle"
Exited(r) == pc[r] \in {"done", "panicked"}

\* C1: every request the middleware handles starts exactly one transaction on
\* the shared application and ends it exactly once; the transaction is started
\* before the next handler is invoked and ended after the handler has come
\* back, so it is never ended while the handler runs.
C1_OneTransactionAroundHandler ==
  /\ started = Cardinality({r \in Reqs : Entered(r)})
  /\ \A r \in Reqs :
       /\ ~Entered(r) => txn[r] = NoTxn /\ txns[r].log = << >>
       /\ Entered(r) =>
            /\ txn[r] # NoTxn
            /\ txns[txn[r]].app = app
            /\ Count(Ops(txn[r]), "StartTransaction") = 1
            /\ Count(trace[r], "StartTransaction") = 1
            /\ txns[txn[r]].ends = Count(Ops(txn[r]), "End")
            /\ txns[txn[r]].ends = Count(trace[r], "End")
            /\ txns[txn[r]].ends <= 1
            /\ pc[r] = "done" => txns[txn[r]].ends = 1
            /\ pc[r] \in {"next", "handler"} => txns[txn[r]].ends = 0
            /\ Count(trace[r], "Next") = 1 =>
                 Pos(trace[r], "StartTransaction") < Pos(trace[r], "Next")
            /\ Count(trace[r], "End") = 1 =>
                 /\ Pos(trace[r], "Next") < Pos(trace[r], "End")
                 /\ \/ Pos(trace[r], "NextReturned") \in 1 .. Pos(trace[r], "End") - 1
                    \/ Pos(trace[r], "NextPanicked") \in 1 .. Pos(trace[r], "End") - 1

\* one request is inside the next handler, its transaction open, after
\* another request has been handled and its transaction ended
C1_Witness ==
  \E r1, r2 \in Reqs :
    /\ pc[r1] = "handler" /\ txns[txn[r1]].ends = 0
    /\ pc[r2] = "done" /\ txns[txn[r2]].ends = 1

\* the handler of r returned the non-nil error handlerErr[r]
ReturnedError(r) == Count(trace[r], "NextReturned") = 1 /\ handlerErr[r] # NilErr

\* the ErrorStatusCodeHandler was called for r and returned a status code
Mapped(r) == Len(mapped[r]) = 1 /\ ~mapped[r][1].out.panics

\* C2 as stated: whenever the next handler returned a non-nil error e, the
\* closure ends with NoticeError(e) called, e returned, and the status code
\* written equal to cfg.ErrorStatusCodeHandler(c, e).
C2_AsStated ==
  \A r \in Reqs :
    ReturnedError(r) /\ Exited(r) =>
      /\ txns[txn[r]].errors = <<handlerErr[r]>>
      /\ ret[r] = <<handlerErr[r]>>
      /\ Len(mapped[r]) = 1
      /\ txns[txn[r]].codes = <<mapped[r][1].out.code>>

\* C2 amended: whenever the next handler returned a non-nil error e, the
\* ErrorStatusCodeHandler is called once, with e, before anything else; if it
\* returns a code, NoticeError is called with exactly e, the code written is
\* the one it returned and the closure returns exactly e; if it panics, no
\* error is noticed, no status is written and nothing is returned.
C2_ErrorPath ==
  \A r \in Reqs :
    ReturnedError(r) =>
      /\ Len(mapped[r]) = IF pc[r] = "map" THEN 0 ELSE 1
      /\ Len(mapped[r]) = 1 =>
           /\ mapped[r][1].err = handlerErr[r]
           /\ mapped[r][1].out \in StatusOutcomes(r)
      /\ txns[txn[r]].errors \in {<< >>, <<handlerErr[r]>>}
      /\ Len(txns[txn[r]].codes) <= 1
      /\ Len(txns[txn[r]].codes) = 1 =>
           Mapped(r) /\ txns[txn[r]].codes = <<mapped[r][1].out.code>>
      /\ Exited(r) /\ Mapped(r) =>
           /\ pc[r] = "done"
           /\ txns[txn[r]].errors = <<handlerErr[r]>>
           /\ txns[txn[r]].codes = <<mapped[r][1].out.code>>
           /\ ret[r] = <<handlerErr[r]>>
      /\ Exited(r) /\ ~Mapped(r) =>
           /\ pc[r] = "panicked"
           /\ txns[txn[r]].errors = << >>
           /\ txns[txn[r]].codes = << >>
           /\ ret[r] = << >>

\* a request handled with an error whose mapped status (404) is not the
\* status in the response (201)
C2_Witness ==
  \E r \in Reqs :
    /\ pc[r] = "done"
    /\ handlerErr[r] = FiberErr(404)
    /\ resp[r] = 201
    /\ txns[txn[r]].codes = <<404>>
    /\ txns[txn[r]].errors = <<FiberErr(404)>>
    /\ ret[r] = <<FiberErr(404)>>

\* C3: on every exit of the closure (return after a nil result, return after
\* an error, a panic of the next handler, a panic of the
\* ErrorStatusCodeHandler) the transaction has been ended exactly once, End
\* being the last call; a request inside the closure can always go on.
C3_EndedOnEveryExit ==
  \A r \in Reqs :
    /\ Exited(r) =>
         /\ txns[txn[r]].ends = 1
         /\ Count(Ops(txn[r]), "End") = 1
         /\ Last(Ops(txn[r])) = "End"
         /\ Last(trace[r]) = "End"
    /\ Entered(r) => txns[txn[r]].ends <= 1
    /\ Entered(r) /\ ~Exited(r) => txns[txn[r]].ends = 0 /\ ENABLED Middleware(r)

\* one request left by a panic of the ErrorStatusCodeHandler, another by a
\* panic of the next handler, both transactions ended
C3_Witness ==
  \E r1, r2 \in Reqs :
    /\ pc[r1] = "panicked" /\ Len(mapped[r1]) = 1 /\ mapped[r1][1].out.panics
    /\ txns[txn[r1]].ends = 1
    /\ pc[r2] = "panicked" /\ Count(trace[r2], "NextPanicked") = 1
    /\ txns[txn[r2]].ends = 1

\* C4: New with no application and an empty License panics, with no
\* application built and no handler to serve a request; New with an injected
\* application never panics, whatever License and AppName are, builds no
\* application, and every transaction of the handler it returns is started
\* on the injected application.
C4_Construction ==
  /\ handler = "none" => app = NoApp /\ built = 0 /\ started = 0
  /\ handler = "panicked" =>
       /\ app = NoApp
       /\ started = 0
       /\ \A r \in Reqs : ~Entered(r)
  /\ handler # "none" /\ cfg.Application = NoApp /\ cfg.License = "" =>
       handler = "panicked" /\ built = 0
  /\ handler # "none" /\ cfg.Application # NoApp =>
       /\ handler = "returned"
       /\ built = 0
       /\ app = cfg.Application
       /\ \A r \in Reqs : Entered(r) => txns[txn[r]].app = cfg.Application

\* an injected application with neither License nor AppName, and a request
\* handled on it
C4_Witness ==
  /\ cfg.Application = Injected /\ cfg.License = "" /\ cfg.AppName = ""
  /\ handler = "returned"
  /\ pc[1] = "done" /\ txns[txn[1]].app = Injected

\* C5: FromContext only reads the context: called on a context the
\* middleware has not published a transaction into it yields nil, called by
\* the next handler it yields the transaction the middleware started for that
\* very request, and no call of it starts a transaction.
C5_FromContextLookup ==
  /\ started = Cardinality({r \in Reqs : Entered(r)})
  /\ \A r \in Reqs :
       /\ ~Entered(r) => txns[r] = NoTransaction /\ userCtx[r] = NoTxn
       /\ seen[r] # << >> =>
            IF pc[r] \in {"idle", "started", "webreq", "next"}
            THEN seen[r] = <<NoTxn>>
            ELSE /\ seen[r] = <<txn[r]>>
                 /\ seen[r][1] # NoTxn
                 /\ txns[seen[r][1]].log[1] = Call("StartTransaction", r)
                 /\ txns[seen[r][1]].name = createTransactionName(req[r].method, req[r].path)
                 /\ Count(trace[r], "WriteHeader") = Count(Ops(seen[r][1]), "WriteHeader")
                 /\ Count(trace[r], "End") = Count(Ops(seen[r][1]), "End")

\* one context looked up before the middleware ran (nil), another looked up
\* by the next handler, whose transaction has since been written and ended
C5_Witness ==
  \E r1, r2 \in Reqs :
    /\ pc[r1] = "idle" /\ seen[r1] = <<NoTxn>>
    /\ pc[r2] = "done" /\ seen[r2] = <<txn[r2]>>
    /\ Count(Ops(seen[r2][1]), "WriteHeader") = 1
    /\ txns[seen[r2][1]].ends = 1

\* the calls r's goroutine made on a transaction, in order
TxnOps == {"StartTransaction", "SetWebRequest", "NoticeError", "WriteHeader", "End"}
OwnCalls(r) == SelectSeq(trace[r], LAMBDA op : op \in TxnOps)

\* C8: requests handled concurrently get distinct transactions; every call
\* made while handling a request lands on that request's transaction and on
\* no other; FromContext in its handler yields its own transaction; the web
\* request, error and status code on a transaction are those of its request.
C8_Isolation ==
  /\ \A r1, r2 \in Reqs :
       Entered(r1) /\ Entered(r2) /\ r1 # r2 => txn[r1] # txn[r2]
  /\ \A r \in Reqs :
       Entered(r) =>
         LET t == txns[txn[r]] IN
         /\ \A i \in 1 .. Len(t.log) : t.log[i].by = r
         /\ Ops(txn[r]) = OwnCalls(r)
         /\ t.name = createTransactionName(req[r].method, req[r].path)
         /\ t.web \in {<< >>, <<WebRequest(req[r])>>}
         /\ t.errors \in {<< >>, <<handlerErr[r]>>}
         /\ t.codes \in {<< >>, <<statusCode[r]>>}
         /\ pc[r] \notin {"started", "webreq", "next"} => seen[r] = <<txn[r]>>
         /\ userCtx[r] \in {NoTxn, txn[r]}
         /\ pc[r] = "done" =>
              /\ t.web = <<WebRequest(req[r])>>
              /\ t.codes = <<statusCode[r]>>
              /\ t.errors = IF handlerErr[r] = NilErr THEN << >> ELSE <<handlerErr[r]>>

\* two requests handled with different outcomes, the second started while
\* the first was between StartTransaction and End
C8_Witness ==
  \E r1, r2 \in Reqs :
    /\ pc[r1] = "done" /\ handlerErr[r1] = FiberErr(404)
    /\ txns[txn[r1]].codes = <<404>> /\ txns[txn[r1]].errors = <<FiberErr(404)>>
    /\ pc[r2] = "return" /\ handlerErr[r2] = NilErr
    /\ txns[txn[r2]].codes = <<201>> /\ txns[txn[r2]].errors = << >>
    /\ txns[txn[r2]].ends = 0

\* C9: when the next handler returns nil, the status code written is the
\* response's status code at that moment, neither the ErrorStatusCodeHandler
\* nor NoticeError is called and the closure returns nil; whenever the
\* ErrorStatusCodeHandler is called, it is after the handler has returned and
\* before the status is written.
C9_NilPath ==
  \A r \in Reqs :
    /\ Count(trace[r], "NextReturned") = 1 /\ handlerErr[r] = NilErr =>
         /\ mapped[r] = << >>
         /\ Count(trace[r], "ErrorStatusCodeHandler") = 0
         /\ Count(trace[r], "NoticeError") = 0
         /\ txns[txn[r]].errors = << >>
         /\ statusCode[r] = resp[r]
         /\ txns[txn[r]].codes \in {<< >>, <<resp[r]>>}
         /\ Exited(r) =>
              /\ pc[r] = "done"
              /\ txns[txn[r]].codes = <<resp[r]>>
              /\ ret[r] = <<NilErr>>
    /\ Count(trace[r], "ErrorStatusCodeHandler") = Len(mapped[r])
    /\ Len(mapped[r]) <= 1
    /\ Len(mapped[r]) = 1 =>
         /\ Pos(trace[r], "NextReturned") \in 1 .. Pos(trace[r], "ErrorStatusCodeHandler") - 1
         /\ Count(trace[r], "WriteHeader") = 1 =>
              Pos(trace[r], "ErrorStatusCodeHandler") < Pos(trace[r], "WriteHeader")

\* a handler that set 201 and returned nil, handled, beside a request whose
\* error went through the ErrorStatusCodeHandler
C9_Witness ==
  \E r1, r2 \in Reqs :
    /\ pc[r1] = "done" /\ handlerErr[r1] = NilErr /\ resp[r1] = 201
    /\ txns[txn[r1]].codes = <<201>> /\ ret[r1] = <<NilErr>>
    /\ pc[r2] = "done" /\ Len(mapped[r2]) = 1

\* the steps of the closure up to the return of the next handler
UpToReturn ==
  <<"StartTransaction", "SetWebRequest", "SetUserContext", "Next", "NextReturned">>

PathNil == UpToReturn \o <<"WriteHeader", "End">>
PathError ==
  UpToReturn \o <<"ErrorStatusCodeHandler", "NoticeError", "WriteHeader", "End">>
PathMapPanic == UpToReturn \o <<"ErrorStatusCodeHandler", "End">>
PathNextPanic ==
  <<"StartTransaction", "SetWebRequest", "SetUserContext", "Next", "NextPanicked", "End">>

\* C10 as stated: on every path where the next handler returns, with or
\* without error, the steps are StartTransaction, SetWebRequest, publication,
\* the handler, NoticeError on error only, WriteHeader, End, with WriteHeader
\* called exactly once.
C10_AsStated ==
  LET order == <<"StartTransaction", "SetWebRequest", "SetUserContext", "Next",
                 "NextReturned", "NoticeError", "WriteHeader", "End">>
  IN \A r \in Reqs :
       Count(trace[r], "NextReturned") = 1 =>
         /\ \A i, j \in 1 .. Len(order) :
              /\ Count(trace[r], order[i]) <= 1
              /\ i < j /\ Count(trace[r], order[i]) = 1 /\ Count(trace[r], order[j]) = 1 =>
                   Pos(trace[r], order[i]) < Pos(trace[r], order[j])
         /\ Count(trace[r], "NoticeError") = 1 => handlerErr[r] # NilErr
         /\ Exited(r) =>
              /\ Count(trace[r], "WriteHeader") = 1
              /\ Last(trace[r]) = "End"

\* C10 amended: the steps of a request follow one of four paths: the next
\* handler returns nil; it returns an error and the ErrorStatusCodeHandler
\* returns; it returns an error and the ErrorStatusCodeHandler panics; it
\* panics.  On the first two, the paths on which the closure returns,
\* WriteHeader is called exactly once, after the handler's return and before
\* End, and NoticeError on the second only; on the other two WriteHeader is
\* not called.  End is the last call on every path, and the calls on the
\* transaction are the closure's, in the same order.
C10_StepOrder ==
  \A r \in Reqs :
    /\ \/ IsPrefix(trace[r], PathNil)
       \/ IsPrefix(trace[r], PathError)
       \/ IsPrefix(trace[r], PathMapPanic)
       \/ IsPrefix(trace[r], PathNextPanic)
    /\ Entered(r) => Ops(txn[r]) = OwnCalls(r)
    /\ pc[r] = "done" =>
         /\ trace[r] = IF handlerErr[r] = NilErr THEN PathNil ELSE PathError
         /\ Count(Ops(txn[r]), "WriteHeader") = 1
         /\ Pos(trace[r], "NextReturned") < Pos(trace[r], "WriteHeader")
         /\ Pos(trace[r], "WriteHeader") < Pos(trace[r], "End")
    /\ pc[r] = "panicked" =>
         /\ trace[r] \in {PathMapPanic, PathNextPanic}
         /\ Count(Ops(txn[r]), "WriteHeader") = 0
    /\ Exited(r) <=> Count(trace[r], "End") = 1
    /\ Count(trace[r], "End") = 1 => Last(trace[r]) = "End" /\ Last(Ops(txn[r])) = "End"

\* one request handled on the error path and another on the nil path
C10_Witness ==
  \E r1, r2 \in Reqs :
    /\ pc[r1] = "done" /\ trace[r1] = PathError
    /\ pc[r2] = "done" /\ trace[r2] = PathNil

\* C6: transport classifies every scheme by case-sensitive prefix: "https..."
\* is HTTPS, "http" (and any other "http...") is HTTP, everything else,
\* among it "", "ftp", "HTTP" and "HTTPS", is unknown; the https test wins
\* over the http test.
C6_TransportClassification ==
  call.fn = "transport" /\ result.done =>
    LET s == call.schema
        https == Len(s) >= 5 /\ SubSeq(s, 1, 5) = "https"
        http == Len(s) >= 4 /\ SubSeq(s, 1, 4) = "http"
    IN /\ https => result.transport = TransportHTTPS
       /\ s = "http" => result.transport = TransportHTTP
       /\ http /\ ~https => result.transport = TransportHTTP
       /\ ~http => result.transport = TransportUnknown
       /\ s \in {"", "ftp", "HTTP", "HTTPS"} => result.transport = TransportUnknown
       /\ s \in {"https", "https://host"} => result.transport = TransportHTTPS

\* "HTTPS" classified unknown
C6_Witness ==
  /\ call.fn = "transport" /\ result.done
  /\ call.schema = "HTTPS"
  /\ result.transport = TransportUnknown

====
